---- MODULE Spec2Model ----
(***************************************************************************)
(* Future Gate email dashboard: the result-ingestion engine.               *)
(*                                                                         *)
(* The repository holds two implementations of the engine:                 *)
(*   - server/server.js, the running server (routes, withDb and its own    *)
(*     upsertEmailsAndThreads); its definitions carry the prefix server_   *)
(*     where the name is also used by the other implementation;            *)
(*   - the db / util / core modules whose text is kept in README.md        *)
(*     (readDb .. basicSummaryFromEmails), modelled under their own names. *)
(* Spec is the server, SpecCore the core engine.                           *)
(*                                                                         *)
(* Strings are modelled by what the code does with them:                   *)
(*   - a subject is a sequence of tokens (reply/forward markers, words,    *)
(*     and "_" for a run of extra whitespace);                             *)
(*   - an address is a string with a lower-case form (toLowerCase);        *)
(*   - a timestamp is a string that Date parses to a time or to Invalid.   *)
(***************************************************************************)
EXTENDS Integers, Sequences, FiniteSets, TLC

VARIABLES
    db,       \* db.json as server.js reads and writes it: queries, emails, threads
    hooks,    \* POST /api/search requests awaiting the Zapier hook's answer
    coreDb,   \* the store of the core engine: queries, threads, emails, summaries
    mailbox,  \* the messages the provider's search can return
    last,     \* the last request and its response
    replayed, \* core engine: the last call repeated the call before it
    handlers, \* results requests in flight, each with its position in withDb
    view,     \* a derived view (metrics, summary, key) and what it was computed from
    processEnv \* process.env as read at start-up: INCOMING_WEBHOOK_SECRET

vars == <<db, hooks, coreDb, mailbox, last, replayed, handlers, view, processEnv>>

(***************************************************************************)
(* Bounds of the model.                                                    *)
(***************************************************************************)
MaxBatch == 2      \* messages in one batch
MaxReceived == 2   \* messages delivered to the server over a whole run
MaxEmails == 2     \* Email records in the store of the core engine
MaxHandlers == 2   \* results requests in flight at once
MaxThread == 4     \* Emails of the thread whose metrics are computed
MaxSummaryThread == 6  \* Emails of the thread that is summarized

NULL == "null"
InvalidDate == -1

QueryIds == {"q1", "q2"}

(***************************************************************************)
(* Strings.                                                                *)
(***************************************************************************)
toLowerCase(s) ==
    CASE s = "A@X.com" -> "a@x.com"
      [] s = "S@FutureGate.info" -> "s@futuregate.info"
      [] s = "Re:" -> "re:"
      [] s = "RE:" -> "re:"
      [] s = "Fwd:" -> "fwd:"
      [] s = "FW:" -> "fw:"
      [] s = "Hello" -> "hello"
      [] s = "Bye" -> "bye"
      [] s = "World" -> "world"
      [] s = "Quarterly" -> "quarterly"
      [] s = "Report" -> "report"
      [] s = "(No subject)" -> "(no subject)"
      [] OTHER -> s

\* String.prototype.trim on an address: the model's addresses with outer blanks
trimStr(s) ==
    CASE s = " a@x.com " -> "a@x.com"
      [] OTHER -> s

IsMarker(tok) == toLowerCase(tok) \in {"re:", "fw:", "fwd:"}
IsSpace(tok) == tok = "_"

RECURSIVE trimStart(_)
trimStart(s) ==
    IF s # <<>> /\ IsSpace(Head(s)) THEN trimStart(Tail(s)) ELSE s

RECURSIVE trimEnd(_)
trimEnd(s) ==
    IF s # <<>> /\ IsSpace(s[Len(s)]) THEN trimEnd(SubSeq(s, 1, Len(s) - 1)) ELSE s

trim(s) == trimEnd(trimStart(s))

MapSeq(s, Op(_)) == [i \in 1..Len(s) |-> Op(s[i])]

\* /^\s*(re|fw|fwd)\s*:\s*/ applied once at the start of the string
stripOneMarker(s) ==
    LET t == trimStart(s)
    IN IF t # <<>> /\ IsMarker(Head(t)) THEN trimStart(Tail(t)) ELSE s

\* server.js: the regex is anchored with ^ and has no m flag, so the g flag
\* finds no second match: one marker is removed
server_normalizeSubject(subject) ==
    MapSeq(trim(stripOneMarker(trim(subject))), toLowerCase)

\* new Date(s).getTime() in milliseconds, Invalid Date as InvalidDate
parseDateSafe(s) ==
    CASE s = "T1" -> 1000
      [] s = "T2" -> 1500
      [] s = "T2+00:00" -> 1500
      [] s = "T3" -> 3000
      [] OTHER -> InvalidDate

(***************************************************************************)
(* server.js: upsertEmailsAndThreads                                       *)
(***************************************************************************)
\* Array.from(new Set(list)): first occurrences, in order
RECURSIVE uniq(_)
uniq(s) ==
    IF s = <<>> THEN <<>>
    ELSE LET r == uniq(SubSeq(s, 1, Len(s) - 1))
             x == s[Len(s)]
         IN IF \E i \in 1..Len(r) : r[i] = x THEN r ELSE Append(r, x)

Range(s) == {s[i] : i \in 1..Len(s)}

truthy(x) == x # ""

\* Map.get over a Map built from the array: the last entry with the key wins
lastIndex(s, Test(_)) ==
    IF \E i \in 1..Len(s) : Test(s[i])
    THEN CHOOSE i \in 1..Len(s) : Test(s[i]) /\ \A j \in (i + 1)..Len(s) : ~Test(s[j])
    ELSE 0

\* the key taken from the subject whatever the conversation
server_threadKey_subjectOnly(item) ==
    LET subjectNorm == server_normalizeSubject(item.subject)
    IN [ns |-> "subj", conv |-> "",
        subj |-> IF subjectNorm = <<>> THEN <<"no-subject">> ELSE subjectNorm,
        parts |-> <<>>]

server_threadKey(item) ==
    LET subjectNorm == server_normalizeSubject(item.subject)
    IN IF truthy(item.conversationId)
       THEN [ns |-> "conv", conv |-> item.conversationId, subj |-> <<>>, parts |-> <<>>]
       ELSE [ns |-> "subj", conv |-> "",
             subj |-> IF subjectNorm = <<>> THEN <<"no-subject">> ELSE subjectNorm,
             parts |-> <<>>]

server_emailRec(acc, queryId, item) ==
    [id |-> Len(acc.emails) + 1,
     queryId |-> queryId,
     messageId |-> item.messageId,
     conversationId |-> IF truthy(item.conversationId) THEN item.conversationId ELSE NULL,
     subject |-> item.subject,
     from |-> item.from,
     to |-> item.to,
     cc |-> item.cc,
     sentAt |-> item.sentAt]

server_newThread(acc, queryId, item) ==
    [id |-> Len(acc.threads) + 1,
     queryId |-> queryId,
     key |-> server_threadKey(item),
     subject |-> IF item.subject = <<>> THEN <<"(No subject)">> ELSE item.subject,
     subjectNorm |-> server_normalizeSubject(item.subject),
     participants |-> uniq(MapSeq(SelectSeq(<<item.from>> \o item.to, truthy), toLowerCase)),
     firstAt |-> item.sentAt,
     lastAt |-> item.sentAt,
     messageIds |-> <<item.messageId>>]

\* participants rebuilt from the message alone
server_mergeParticipants_replace(thread, item) ==
    uniq(MapSeq(SelectSeq(<<item.from>> \o item.to, truthy), toLowerCase))

\* "Update participants": the Set of the thread's addresses with the sender and
\* the recipients added
server_mergeParticipants(thread, item) ==
    LET p1 == IF truthy(item.from)
              THEN Append(thread.participants, toLowerCase(item.from))
              ELSE thread.participants
        p2 == p1 \o MapSeq(SelectSeq(item.to, truthy), toLowerCase)
    IN uniq(p2)

server_updateThread(thread, item) ==
    LET cur == parseDateSafe(item.sentAt)
        first == parseDateSafe(thread.firstAt)
        lastT == parseDateSafe(thread.lastAt)
    IN [thread EXCEPT
          !.messageIds = IF item.messageId \in Range(@) THEN @ ELSE Append(@, item.messageId),
          !.firstAt = IF cur # InvalidDate /\ (first = InvalidDate \/ cur < first)
                      THEN item.sentAt ELSE @,
          !.lastAt = IF cur # InvalidDate /\ (lastT = InvalidDate \/ cur > lastT)
                     THEN item.sentAt ELSE @,
          !.participants = server_mergeParticipants(thread, item)]

\* a lookup that never finds the stored Email
server_existing_never(acc, messageId) == FALSE

\* emailByMessageId.get(messageId)
server_existing(acc, messageId) ==
    \E i \in 1..Len(acc.emails) : acc.emails[i].messageId = messageId

\* an upsert of the Email: the stored record of the message replaced
server_pushEmail_replace(emails, existing, emailRec) ==
    IF existing
    THEN [i \in 1..Len(emails) |->
             IF emails[i].messageId = emailRec.messageId THEN emailRec ELSE emails[i]]
    ELSE Append(emails, emailRec)

\* if (!existing) { ... db.emails.push(emailRec) ... }
server_pushEmail(emails, existing, emailRec) ==
    IF existing THEN emails ELSE Append(emails, emailRec)

\* the touched ids kept in a list, one entry per message
server_touch_list(touched, threadId) == Append(touched, threadId)

\* threadIdsTouched.add(thread.id): a Set keeps an id once, in insertion order
server_touch(touched, threadId) == uniq(Append(touched, threadId))

\* a lookup that never finds the thread
server_findThread_never(acc, threadKey) == 0

\* threadByKey.get(threadKey)
server_findThread(acc, threadKey) ==
    LET HasKey(t) == t.key = threadKey
    IN lastIndex(acc.threads, HasKey)

\* one pass of the for loop of upsertEmailsAndThreads
server_upsertItem(acc, queryId, item) ==
    IF item.messageId = "" THEN acc
    ELSE
      LET existing == server_existing(acc, item.messageId)
          rec == server_emailRec(acc, queryId, item)
          key == server_threadKey(item)
          idx == server_findThread(acc, key)
          threads1 == IF idx = 0
                      THEN Append(acc.threads, server_newThread(acc, queryId, item))
                      ELSE [acc.threads EXCEPT ![idx] = server_updateThread(@, item)]
          tid == IF idx = 0 THEN Len(acc.threads) + 1 ELSE acc.threads[idx].id
      IN [emails |-> server_pushEmail(acc.emails, existing, rec),
          threads |-> threads1,
          emailIdsCreated |-> IF existing THEN acc.emailIdsCreated
                              ELSE Append(acc.emailIdsCreated, rec.id),
          threadIdsTouched |-> server_touch(acc.threadIdsTouched, tid)]

RECURSIVE server_upsertLoop(_, _, _)
server_upsertLoop(acc, queryId, emails) ==
    IF emails = <<>> THEN acc
    ELSE server_upsertLoop(server_upsertItem(acc, queryId, Head(emails)), queryId, Tail(emails))

server_upsertEmailsAndThreads(store, queryId, emails) ==
    server_upsertLoop([emails |-> store.emails, threads |-> store.threads,
                       emailIdsCreated |-> <<>>, threadIdsTouched |-> <<>>],
                      queryId, emails)

(***************************************************************************)
(* util (README.md): safeEmail, domainOf, normalizeSubject, stableHash,    *)
(* parseIsoDate, pickParticipants                                          *)
(***************************************************************************)
safeEmail(val) == IF ~truthy(val) THEN "" ELSE toLowerCase(trimStr(val))

domainOf(email) ==
    LET e == safeEmail(email)
    IN CASE e \in {"a@x.com", "b@x.com", "c@x.com"} -> "x.com"
         [] e = "s@futuregate.info" -> "futuregate.info"
         [] e = "s@mail.futuregate.info" -> "mail.futuregate.info"
         [] OTHER -> ""

\* the do .. while loop: one marker is removed per pass until none is left
RECURSIVE stripMarkers(_)
stripMarkers(s) ==
    LET t == stripOneMarker(s)
    IN IF t = s THEN s ELSE stripMarkers(t)

NotSpace(tok) == ~IsSpace(tok)

\* s.replace(/\s+/g, " ").trim(): no run of extra whitespace is left
collapseSpaces(s) == SelectSeq(s, NotSpace)

normalizeSubject(subject) ==
    IF subject = <<>> THEN <<>>
    ELSE collapseSpaces(stripMarkers(trim(subject)))

\* sha256 is taken to be free of collisions: the digest stands for its input
stableHash(subject, participants) == [subject |-> subject, participants |-> participants]

parseIsoDate(d) == parseDateSafe(d)

toISOString(t) ==
    CASE t = 1000 -> "T1"
      [] t = 1500 -> "T2"
      [] t = 3000 -> "T3"
      [] OTHER -> "Invalid Date"

\* Array.prototype.sort() on addresses: code unit order
addrRank(a) ==
    CASE a = "" -> 0
      [] a = " a@x.com " -> 1
      [] a = "A@X.com" -> 2
      [] a = "S@FutureGate.info" -> 3
      [] a = "a@x.com" -> 4
      [] a = "b@x.com" -> 5
      [] a = "c@x.com" -> 6
      [] a = "s@futuregate.info" -> 7
      [] a = "s@mail.futuregate.info" -> 8
      [] OTHER -> 9

RECURSIVE sortAddrs(_)
sortAddrs(s) ==
    IF s = <<>> THEN <<>>
    ELSE LET i == CHOOSE i \in 1..Len(s) : \A j \in 1..Len(s) :
                      addrRank(s[i]) < addrRank(s[j]) \/ (addrRank(s[i]) = addrRank(s[j]) /\ i <= j)
         IN <<s[i]>> \o sortAddrs(SubSeq(s, 1, i - 1) \o SubSeq(s, i + 1, Len(s)))

\* the participants left in the order of the message
pickParticipants_unsorted(email) ==
    LET list == (IF truthy(email.from) THEN <<safeEmail(email.from)>> ELSE <<>>)
                \o MapSeq(email.to, safeEmail) \o MapSeq(email.cc, safeEmail)
    IN SelectSeq(uniq(list), truthy)

pickParticipants(email) ==
    LET list == (IF truthy(email.from) THEN <<safeEmail(email.from)>> ELSE <<>>)
                \o MapSeq(email.to, safeEmail) \o MapSeq(email.cc, safeEmail)
    IN sortAddrs(SelectSeq(uniq(list), truthy))

(***************************************************************************)
(* core (README.md): classifyDirection, threadKeyFor, upsertEmailsAndThreads*)
(***************************************************************************)
STAFF_DOMAIN == "futuregate.info"

classifyDirection(fromEmail) ==
    IF domainOf(fromEmail) = STAFF_DOMAIN THEN "staff" ELSE "client"

threadKeyFor(email) ==
    IF truthy(email.conversationId)
    THEN [ns |-> "conv", conv |-> email.conversationId, subj |-> <<>>, parts |-> <<>>]
    ELSE LET h == stableHash(normalizeSubject(email.subject), pickParticipants(email))
         IN [ns |-> "fallback", conv |-> "", subj |-> h.subject, parts |-> h.participants]

\* the first element the predicate holds of (Array.prototype.find), 0 for none
firstIndex(s, Test(_)) ==
    IF \E i \in 1..Len(s) : Test(s[i])
    THEN CHOOSE i \in 1..Len(s) : Test(s[i]) /\ \A j \in 1..(i - 1) : ~Test(s[j])
    ELSE 0

\* normalizeSubject(e.subject || "(no subject)")
subjectOrPlaceholder(subject) ==
    normalizeSubject(IF subject = <<>> THEN <<"(no subject)">> ELSE subject)

newThread(acc, queryId, e, n) ==
    [id |-> Len(acc.threads) + 1,
     queryId |-> queryId,
     key |-> n.key,
     conversationId |-> IF truthy(e.conversationId) THEN e.conversationId ELSE NULL,
     subject |-> subjectOrPlaceholder(e.subject),
     participants |-> sortAddrs(SelectSeq(uniq(<<n.from>> \o n.to \o n.cc), truthy)),
     firstAt |-> toISOString(n.sentAt),
     lastAt |-> toISOString(n.sentAt)]

\* the subject taken from every message
threadSubject_overwrite(subject, e) == subjectOrPlaceholder(e.subject)

\* "update subject if current is empty-ish"
threadSubject(subject, e) ==
    IF subject = <<>> \/ subject = <<"(no subject)">>
    THEN subjectOrPlaceholder(e.subject) ELSE subject

\* the merged addresses left in the order they were met
mergeParticipants_unsorted(participants, n) ==
    SelectSeq(uniq(participants \o <<n.from>> \o n.to \o n.cc), truthy)

\* "also merge participants"
mergeParticipants(participants, n) ==
    sortAddrs(SelectSeq(uniq(participants \o <<n.from>> \o n.to \o n.cc), truthy))

updateThread(thread, e, n) ==
    [thread EXCEPT
       !.firstAt = IF n.sentAt < parseIsoDate(@) THEN toISOString(n.sentAt) ELSE @,
       !.lastAt = IF n.sentAt > parseIsoDate(@) THEN toISOString(n.sentAt) ELSE @,
       !.participants = mergeParticipants(@, n),
       !.subject = threadSubject(@, e)]

emailRec(acc, queryId, threadId, e, n) ==
    [id |-> Len(acc.emails) + 1,
     queryId |-> queryId,
     threadId |-> threadId,
     messageId |-> IF truthy(n.messageId) THEN n.messageId ELSE NULL,
     conversationId |-> IF truthy(e.conversationId) THEN e.conversationId ELSE NULL,
     subject |-> e.subject,
     from |-> n.from,
     to |-> n.to,
     cc |-> n.cc,
     sentAt |-> toISOString(n.sentAt),
     direction |-> classifyDirection(n.from)]

\* threadKeyFor({ subject, conversationId, from, to, cc }) of a raw message
keyOfMessage(e) ==
    threadKeyFor([subject |-> e.subject, conversationId |-> e.conversationId,
                  from |-> safeEmail(e.from), to |-> MapSeq(e.to, safeEmail),
                  cc |-> MapSeq(e.cc, safeEmail)])

\* a dedup lookup that never finds the stored Email
alreadyIndex_never(acc, messageId) == 0

\* db.emails.find(x => x.messageId && messageId && x.messageId === messageId)
alreadyIndex(acc, messageId) ==
    LET Same(x) == x.messageId # NULL /\ truthy(x.messageId) /\ truthy(messageId)
                   /\ x.messageId = messageId
    IN firstIndex(acc.emails, Same)

\* the lookup by key alone, whatever the query
findThread_anyQuery(acc, key, queryId) ==
    LET Keyed(t) == t.key = key
    IN firstIndex(acc.threads, Keyed)

\* db.threads.find(t => t.key === key && t.queryId === queryId)
findThread(acc, key, queryId) ==
    LET Mine(t) == t.key = key /\ t.queryId = queryId
    IN firstIndex(acc.threads, Mine)

\* one pass of the for loop of upsertEmailsAndThreads
upsertItem(acc, queryId, e) ==
    LET sentAt == parseIsoDate(e.sentAt)
        from == safeEmail(e.from)
        to == MapSeq(e.to, safeEmail)
        cc == MapSeq(e.cc, safeEmail)
        messageId == trimStr(e.messageId)
        already == alreadyIndex(acc, messageId)
        key == keyOfMessage(e)
        n == [sentAt |-> sentAt, from |-> from, to |-> to, cc |-> cc,
              messageId |-> messageId, key |-> key]
        idx == findThread(acc, key, queryId)
        threads1 == IF idx = 0
                    THEN Append(acc.threads, newThread(acc, queryId, e, n))
                    ELSE [acc.threads EXCEPT ![idx] = updateThread(@, e, n)]
        tid == IF idx = 0 THEN Len(acc.threads) + 1 ELSE acc.threads[idx].id
        rec == emailRec(acc, queryId, tid, e, n)
    IN IF sentAt = InvalidDate THEN acc
       ELSE IF already # 0
       THEN [acc EXCEPT !.threadIdsTouched = uniq(Append(@, acc.emails[already].threadId))]
       ELSE [emails |-> Append(acc.emails, rec),
             threads |-> threads1,
             emailIdsCreated |-> Append(acc.emailIdsCreated, rec.id),
             threadIdsTouched |-> uniq(Append(acc.threadIdsTouched, tid))]

RECURSIVE upsertLoop(_, _, _)
upsertLoop(acc, queryId, incomingEmails) ==
    IF incomingEmails = <<>> THEN acc
    ELSE upsertLoop(upsertItem(acc, queryId, Head(incomingEmails)), queryId,
                    Tail(incomingEmails))

upsertEmailsAndThreads(store, queryId, incomingEmails) ==
    upsertLoop([emails |-> store.emails, threads |-> store.threads,
                emailIdsCreated |-> <<>>, threadIdsTouched |-> <<>>],
               queryId, incomingEmails)

(***************************************************************************)
(* core (README.md): computeResponseMetrics                                *)
(***************************************************************************)
\* a value or null: a sequence of at most one value
None == <<>>
Some(x) == <<x>>

\* Array.prototype.sort with a comparator that subtracts ranks: the indices in
\* ascending order of rank, equal ranks in their order of the array (stable)
RECURSIVE sortedIndices(_, _)
sortedIndices(rank, todo) ==
    IF todo = {} THEN <<>>
    ELSE LET i == CHOOSE i \in todo : \A j \in todo :
                      rank[i] < rank[j] \/ (rank[i] = rank[j] /\ i <= j)
         IN <<i>> \o sortedIndices(rank, todo \ {i})

\* the Emails left in the order given
sortBySentAt_asGiven(emails) == emails

\* [...emails].sort((a,b) => new Date(a.sentAt) - new Date(b.sentAt))
sortBySentAt(emails) ==
    LET rank == [i \in DOMAIN emails |-> parseIsoDate(emails[i].sentAt)]
        order == sortedIndices(rank, DOMAIN emails)
    IN [k \in DOMAIN emails |-> emails[order[k]]]

\* "find first subsequent staff reply": its index, 0 for none
replyIndex(sorted, i) ==
    LET later == {j \in (i + 1)..Len(sorted) : sorted[j].direction = "staff"}
    IN IF later = {} THEN 0 ELSE CHOOSE j \in later : \A k \in later : j <= k

\* Math.round(diffMs / 1000)
responseSeconds_round(diffMs) ==
    LET s == (diffMs + 500) \div 1000
    IN IF s < 0 THEN 0 ELSE s

\* Math.max(0, Math.floor(diffMs / 1000))
responseSeconds(diffMs) ==
    LET s == diffMs \div 1000
    IN IF s < 0 THEN 0 ELSE s

metricOf(sorted, i) ==
    LET j == replyIndex(sorted, i)
    IN IF j = 0
       THEN [clientMessageId |-> sorted[i].id, staffReplyId |-> None,
             responseSeconds |-> None]
       ELSE [clientMessageId |-> sorted[i].id, staffReplyId |-> Some(sorted[j].id),
             responseSeconds |->
                Some(responseSeconds(parseIsoDate(sorted[j].sentAt)
                                       - parseIsoDate(sorted[i].sentAt)))]

RECURSIVE perClientFrom(_, _)
perClientFrom(sorted, i) ==
    IF i > Len(sorted) THEN <<>>
    ELSE (IF sorted[i].direction = "client" THEN <<metricOf(sorted, i)>> ELSE <<>>)
            \o perClientFrom(sorted, i + 1)

RECURSIVE sumSeconds(_)
sumSeconds(ms) ==
    IF ms = <<>> THEN 0 ELSE Head(ms).responseSeconds[1] + sumSeconds(Tail(ms))

\* Math.floor(num / den)
MathRound_floor(num, den) == num \div den

\* Math.round(num / den) for den > 0: halves go up
MathRound(num, den) == (2 * num + den) \div (2 * den)

isNumber(m) == m.responseSeconds # None

averageSeconds(metrics) ==
    LET responded == SelectSeq(metrics, isNumber)
    IN IF Len(responded) = 0 THEN None
       ELSE Some(MathRound(sumSeconds(responded), Len(responded)))

computeResponseMetrics(emails) ==
    LET metrics == perClientFrom(sortBySentAt(emails), 1)
    IN [perClient |-> metrics, averageSeconds |-> averageSeconds(metrics)]

(***************************************************************************)
(* core (README.md): basicSummaryFromEmails.  The summary text is kept as   *)
(* its parts: the participants of the "Participants:" line and the          *)
(* snippets of the "Key points" lines (the model's snippets are shorter     *)
(* than the 160 characters a line keeps).                                   *)
(***************************************************************************)
ParticipantsShown == 8
SnippetsKept == 8
KeyPointsShown == 5

\* String.prototype.trim on a snippet: a snippet of blanks becomes empty
trimText(s) == IF s = " " THEN "" ELSE s

RECURSIVE flatten(_)
flatten(ss) == IF ss = <<>> THEN <<>> ELSE Head(ss) \o flatten(Tail(ss))

\* arr.slice(0, n)
sliceFirst(s, n) == SubSeq(s, 1, IF Len(s) < n THEN Len(s) ELSE n)

\* arr.slice(-n)
sliceLast(s, n) == SubSeq(s, IF Len(s) < n THEN 1 ELSE Len(s) - n + 1, Len(s))

addressesOf(e) == <<e.from>> \o e.to \o e.cc

snippetOf(e) == trimText(e.snippet)

basicSummaryFromEmails(emails) ==
    LET sorted == sortBySentAt(emails)
        participants == SelectSeq(uniq(flatten(MapSeq(sorted, addressesOf))), truthy)
        snippets == sliceLast(SelectSeq(MapSeq(sorted, snippetOf), truthy), SnippetsKept)
    IN [participants |-> sliceFirst(participants, ParticipantsShown),
        more |-> Len(participants) > ParticipantsShown,
        keyPoints |-> sliceFirst(snippets, KeyPointsShown),
        actionItems |-> <<>>]

(***************************************************************************)
(* server.js: isStaffEmail, computeResponseMetrics                         *)
(***************************************************************************)
\* e.endsWith("@" + STAFF_DOMAIN) on the trimmed, lower-cased address
server_isStaffEmail(email) ==
    IF ~truthy(email) THEN FALSE
    ELSE toLowerCase(trimStr(email)) \in {"s@futuregate.info"}

\* sort by parseDateSafe(x.sentAt)?.getTime() ?? 0
server_sortBySentAt(messages) ==
    LET rank == [i \in DOMAIN messages |->
                    IF parseDateSafe(messages[i].sentAt) = InvalidDate THEN 0
                    ELSE parseDateSafe(messages[i].sentAt)]
        order == sortedIndices(rank, DOMAIN messages)
    IN [k \in DOMAIN messages |-> messages[order[k]]]

server_computeResponseMetrics(messages) ==
    LET sorted == server_sortBySentAt(messages)
        Dated(i) == parseDateSafe(sorted[i].sentAt) # InvalidDate
        clients == {i \in DOMAIN sorted :
                       Dated(i) /\ ~server_isStaffEmail(toLowerCase(sorted[i].from))}
        firstClient == IF clients = {} THEN 0
                       ELSE CHOOSE i \in clients : \A k \in clients : i <= k
        replies == {j \in DOMAIN sorted :
                       /\ firstClient # 0 /\ j > firstClient /\ Dated(j)
                       /\ server_isStaffEmail(toLowerCase(sorted[j].from))}
        firstStaffReply == IF replies = {} THEN 0
                           ELSE CHOOSE j \in replies : \A k \in replies : j <= k
    IN IF firstClient = 0
       THEN [hasClientEmail |-> FALSE, hasStaffReply |-> FALSE, responseMinutes |-> None]
       ELSE IF firstStaffReply = 0
       THEN [hasClientEmail |-> TRUE, hasStaffReply |-> FALSE, responseMinutes |-> None]
       ELSE [hasClientEmail |-> TRUE, hasStaffReply |-> TRUE,
             responseMinutes |->
                Some(MathRound(parseDateSafe(sorted[firstStaffReply].sentAt)
                                 - parseDateSafe(sorted[firstClient].sentAt), 60000))]

(***************************************************************************)
(* The messages of a run.                                                  *)
(***************************************************************************)
MessageIds == {"", "m1", "m2"}
ConversationIds == {"", "c1"}
Subjects == {<<>>, <<"Re:", "Hello">>, <<"Bye">>}
SentAts == {"bad", "T1", "T2+00:00"}
ClientEnvelope == [from |-> "a@x.com", to |-> <<"b@x.com">>, cc |-> <<>>]
StaffEnvelope == [from |-> "S@FutureGate.info", to |-> <<"A@X.com">>, cc |-> <<"c@x.com">>]

message(messageId, conversationId, subject, env, sentAt) ==
    [messageId |-> messageId, conversationId |-> conversationId, subject |-> subject,
     from |-> env.from, to |-> env.to, cc |-> env.cc, sentAt |-> sentAt]

\* the first message of the mailbox: a client message with an identifier and a
\* valid timestamp
FirstMessages ==
    {message("m1", c, <<"Hello">>, ClientEnvelope, "T2") : c \in ConversationIds}

\* the second: a staff message with any identifier, conversation, subject and
\* timestamp
SecondMessages ==
    {message(m, c, s, StaffEnvelope, t) :
        m \in MessageIds, c \in ConversationIds, s \in Subjects, t \in SentAts}

Mailboxes == {<<a, b>> : a \in FirstMessages, b \in SecondMessages}

Batches == UNION {[1..n -> Range(mailbox)] : n \in 0..MaxBatch}

NoResponse == [ok |-> TRUE, status |-> 0, error |-> "", emailIdsCreated |-> <<>>,
               threadIdsTouched |-> <<>>, received |-> 0]

(***************************************************************************)
(* server.js: routes                                                       *)
(***************************************************************************)
findQuery(store, queryId) ==
    LET HasId(q) == q.id = queryId
    IN lastIndex(store.queries, HasId)

Received(store) ==
    LET RECURSIVE Sum(_)
        Sum(s) == IF s = <<>> THEN 0 ELSE Head(s).receivedCount + Sum(Tail(s))
    IN Sum(store.queries)

\* POST /api/search up to the call of the Zapier hook
PostSearch ==
    /\ Len(db.queries) < Cardinality(QueryIds)
    /\ LET queryId == IF Len(db.queries) = 0 THEN "q1" ELSE "q2"
       IN /\ db' = [db EXCEPT !.queries =
                       Append(@, [id |-> queryId, status |-> "pending",
                                  receivedCount |-> 0, createdMessages |-> 0])]
          /\ hooks' = hooks \cup {queryId}
          /\ last' = [op |-> "search", queryId |-> queryId, emails |-> <<>>,
                      res |-> NoResponse]
    /\ UNCHANGED <<coreDb, mailbox, replayed, handlers, view, processEnv>>

\* POST /api/search once the hook has answered (r.ok), failed (!r.ok) or thrown
HookAnswer(queryId, outcome) ==
    /\ queryId \in hooks
    /\ hooks' = hooks \ {queryId}
    /\ LET i == findQuery(db, queryId)
       IN db' = IF outcome = "ok" \/ i = 0 THEN db
                ELSE [db EXCEPT !.queries[i].status = "error"]
    /\ last' = [op |-> "hook", queryId |-> queryId, emails |-> <<>>,
                res |-> [NoResponse EXCEPT !.ok = (outcome = "ok"),
                             !.status = CASE outcome = "ok" -> 200
                                          [] outcome = "failed" -> 502
                                          [] OTHER -> 500]]
    /\ UNCHANGED <<coreDb, mailbox, replayed, handlers, view, processEnv>>

\* the mutator without the "Unknown queryId" return
resultsMutator_unchecked(store, queryId, emails) ==
    LET i == findQuery(store, queryId)
        r == server_upsertEmailsAndThreads(store, queryId, emails)
    IN [store |-> [queries |-> IF i = 0 THEN store.queries
                               ELSE [store.queries EXCEPT
                                       ![i].status = "complete",
                                       ![i].receivedCount = @ + Len(emails),
                                       ![i].createdMessages = @ + Len(r.emailIdsCreated)],
                   emails |-> r.emails,
                   threads |-> r.threads],
        res |-> [ok |-> TRUE, status |-> 200, error |-> "",
                 emailIdsCreated |-> r.emailIdsCreated,
                 threadIdsTouched |-> r.threadIdsTouched,
                 received |-> Len(emails)]]

\* the mutator counting as received the messages it created an Email for
resultsMutator_createdOnly(store, queryId, emails) ==
    LET i == findQuery(store, queryId)
    IN IF i = 0
       THEN [store |-> store,
             res |-> [NoResponse EXCEPT !.ok = FALSE, !.status = 200,
                                        !.error = "Unknown queryId"]]
       ELSE LET r == server_upsertEmailsAndThreads(store, queryId, emails)
            IN [store |-> [queries |-> [store.queries EXCEPT
                                          ![i].status = "complete",
                                          ![i].receivedCount = @ + Len(r.emailIdsCreated),
                                          ![i].createdMessages = @ + Len(r.emailIdsCreated)],
                           emails |-> r.emails,
                           threads |-> r.threads],
                  res |-> [ok |-> TRUE, status |-> 200, error |-> "",
                           emailIdsCreated |-> r.emailIdsCreated,
                           threadIdsTouched |-> r.threadIdsTouched,
                           received |-> Len(emails)]]

\* the mutator POST /api/zapier/results hands to withDb
resultsMutator(store, queryId, emails) ==
    LET i == findQuery(store, queryId)
    IN IF i = 0
       THEN [store |-> store,
             res |-> [NoResponse EXCEPT !.ok = FALSE, !.status = 200,
                                        !.error = "Unknown queryId"]]
       ELSE LET r == server_upsertEmailsAndThreads(store, queryId, emails)
            IN [store |-> [queries |-> [store.queries EXCEPT
                                          ![i].status = "complete",
                                          ![i].receivedCount = @ + Len(emails),
                                          ![i].createdMessages = @ + Len(r.emailIdsCreated)],
                           emails |-> r.emails,
                           threads |-> r.threads],
                  res |-> [ok |-> TRUE, status |-> 200, error |-> "",
                           emailIdsCreated |-> r.emailIdsCreated,
                           threadIdsTouched |-> r.threadIdsTouched,
                           received |-> Len(emails)]]

\* every request passes
authorized_any(configured, secret) == TRUE

\* the shared secret check: !(INCOMING_WEBHOOK_SECRET && secret !== INCOMING_WEBHOOK_SECRET)
authorized(configured, secret) == ~(truthy(configured) /\ secret # configured)

\* the X-Webhook-Secret headers of the requests: none, a wrong one and the
\* configured one; none where no secret is configured
Secrets(configured) ==
    IF truthy(configured) THEN {"", "wrong", configured} ELSE {""}

\* POST /api/zapier/results with a well-formed body { queryId, emails }; a
\* request with a bad secret is answered before its body is looked at
PostResults(secret, queryId, emails) ==
    /\ Received(db) + Len(emails) <= MaxReceived
    /\ IF authorized(processEnv.INCOMING_WEBHOOK_SECRET, secret)
       THEN \E out \in {resultsMutator(db, queryId, emails)} :
               /\ db' = out.store
               /\ last' = [op |-> "results", secret |-> secret, queryId |-> queryId,
                           emails |-> emails, res |-> out.res]
       ELSE /\ db' = db
            /\ last' = [op |-> "results", secret |-> secret, queryId |-> "",
                        emails |-> <<>>,
                        res |-> [NoResponse EXCEPT
                                   !.ok = FALSE, !.status = 401,
                                   !.error = "Unauthorized (bad webhook secret)."]]
    /\ UNCHANGED <<hooks, coreDb, mailbox, replayed, handlers, view, processEnv>>

(***************************************************************************)
(* core (README.md): one call of upsertEmailsAndThreads inside withDb       *)
(***************************************************************************)
Ingest(queryId, incomingEmails) ==
    \E r \in {upsertEmailsAndThreads(coreDb, queryId, incomingEmails)} :
       /\ Len(r.emails) <= MaxEmails
       /\ coreDb' = [coreDb EXCEPT !.emails = r.emails, !.threads = r.threads]
       /\ last' = [op |-> "ingest", queryId |-> queryId, emails |-> incomingEmails,
                   res |-> [ok |-> TRUE, status |-> 0, error |-> "",
                            emailIdsCreated |-> r.emailIdsCreated,
                            threadIdsTouched |-> r.threadIdsTouched,
                            received |-> Len(incomingEmails)]]
       /\ replayed' = (last.op = "ingest" /\ last.queryId = queryId
                        /\ last.emails = incomingEmails)
       /\ UNCHANGED <<db, hooks, mailbox, handlers, view, processEnv>>

NoRequest == [op |-> "none", queryId |-> "", emails |-> <<>>, res |-> NoResponse]

EmptyDb == [queries |-> <<>>, emails |-> <<>>, threads |-> <<>>]
EmptyCoreDb == [queries |-> <<>>, threads |-> <<>>, emails |-> <<>>, summaries |-> <<>>]

(***************************************************************************)
(* server.js: POST /api/zapier/results step by step through withDb, for    *)
(* requests that are in flight together.  The handler is one synchronous   *)
(* callback: Node runs it to completion before it starts another.          *)
(***************************************************************************)
NoView == [op |-> "none"]

\* process.env.INCOMING_WEBHOOK_SECRET || "": the variable unset, and set as
\* README.md asks
DefaultEnv == [INCOMING_WEBHOOK_SECRET |-> ""]
SecuredEnv == [INCOMING_WEBHOOK_SECRET |-> "s3cret"]

IdleHandler == [pc |-> "idle", queryId |-> "", emails |-> <<>>, local |-> EmptyDb,
                res |-> NoResponse, overlapped |-> FALSE]

InFlight(h) == h.pc \notin {"idle", "done"}

\* the handler is inside withDb: between readDb and the end of writeDb
InWithDb(h) == h.pc \in {"mutate", "write"}

\* a callback starts whatever the others are doing
Runnable_any(hs, s) == TRUE

\* a callback starts when no other callback is running: withDb and the route
\* are synchronous (readFileSync, writeFileSync, no await)
Runnable(hs, s) == \A o \in DOMAIN hs : o # s => ~InWithDb(hs[o])

\* the messages of the requests that have reached the server
Delivered(hs) ==
    LET RECURSIVE Sum(_)
        Sum(s) == IF s = 0 THEN 0 ELSE Len(hs[s].emails) + Sum(s - 1)
    IN Sum(Len(hs))

\* a results request with the configured secret reaches the server
Arrive(s, queryId, emails) ==
    /\ handlers[s].pc = "idle"
    /\ \A o \in 1..(s - 1) : handlers[o].pc # "idle"
    /\ Delivered(handlers) + Len(emails) <= MaxReceived
    /\ LET overlap == \E o \in DOMAIN handlers : InFlight(handlers[o])
       IN handlers' = [o \in DOMAIN handlers |->
                         IF o = s
                         THEN [IdleHandler EXCEPT !.pc = "queued", !.queryId = queryId,
                                                  !.emails = emails, !.overlapped = overlap]
                         ELSE [handlers[o] EXCEPT
                                 !.overlapped = @ \/ InFlight(handlers[o])]]
    /\ UNCHANGED <<db, hooks, coreDb, mailbox, last, replayed, view, processEnv>>

\* withDb: const db = readDb()
WithDbRead(s) ==
    /\ handlers[s].pc = "queued"
    /\ Runnable(handlers, s)
    /\ handlers' = [handlers EXCEPT ![s].pc = "mutate", ![s].local = db]
    /\ UNCHANGED <<db, hooks, coreDb, mailbox, last, replayed, view, processEnv>>

\* withDb: const result = mutatorFn(db)
WithDbMutate(s) ==
    /\ handlers[s].pc = "mutate"
    /\ \E out \in {resultsMutator(handlers[s].local, handlers[s].queryId,
                                   handlers[s].emails)} :
          handlers' = [handlers EXCEPT ![s].pc = "write", ![s].local = out.store,
                                       ![s].res = out.res]
    /\ UNCHANGED <<db, hooks, coreDb, mailbox, last, replayed, view, processEnv>>

\* withDb: writeDb(db); return result, and the route's res.json(result)
WithDbWrite(s) ==
    /\ handlers[s].pc = "write"
    /\ db' = handlers[s].local
    /\ handlers' = [handlers EXCEPT ![s].pc = "done", ![s].local = EmptyDb]
    /\ last' = [op |-> "results", secret |-> processEnv.INCOMING_WEBHOOK_SECRET,
                queryId |-> handlers[s].queryId,
                emails |-> handlers[s].emails, res |-> handlers[s].res]
    /\ UNCHANGED <<hooks, coreDb, mailbox, replayed, view, processEnv>>

\* POST /api/search, itself a synchronous withDb
SearchBetween ==
    /\ \A o \in DOMAIN handlers : ~InWithDb(handlers[o])
    /\ PostSearch

Init ==
    /\ db = EmptyDb
    /\ hooks = {}
    /\ coreDb = EmptyCoreDb
    /\ mailbox \in Mailboxes
    /\ last = NoRequest
    /\ replayed = FALSE
    /\ handlers = [s \in 1..MaxHandlers |-> IdleHandler]
    /\ view = NoView
    /\ processEnv = DefaultEnv

Next ==
    \/ PostSearch
    \/ \E q \in QueryIds, outcome \in {"ok", "failed", "thrown"} : HookAnswer(q, outcome)
    \/ \E secret \in Secrets(processEnv.INCOMING_WEBHOOK_SECRET), q \in QueryIds,
          emails \in Batches : PostResults(secret, q, emails)

Spec == Init /\ [][Next]_vars

NextCore == \E q \in QueryIds, emails \in Batches : Ingest(q, emails)

SpecCore == Init /\ [][NextCore]_vars

NextWithDb ==
    \/ SearchBetween
    \/ \E s \in 1..MaxHandlers, q \in QueryIds, emails \in Batches : Arrive(s, q, emails)
    \/ \E s \in 1..MaxHandlers : WithDbRead(s)
    \/ \E s \in 1..MaxHandlers : WithDbMutate(s)
    \/ \E s \in 1..MaxHandlers : WithDbWrite(s)

(***************************************************************************)
(* The metrics of one thread: the thread's Emails are drawn as the core     *)
(* engine stores them (normalized sender, direction, ISO timestamp), in any *)
(* order.                                                                  *)
(***************************************************************************)
storedEmail(id, from, sentAt) ==
    [id |-> id, from |-> from, direction |-> classifyDirection(from), sentAt |-> sentAt]

ThreadEmails ==
    UNION {{[i \in 1..n |-> storedEmail(i, f[i][1], f[i][2])] :
               f \in [1..n -> {"a@x.com", "s@futuregate.info"} \X {"T1", "T2", "T3"}]} :
           n \in 0..MaxThread}

\* the core engine's computeResponseMetrics on the thread
Metrics ==
    /\ view.op = "thread"
    /\ view' = [op |-> "metrics", emails |-> view.emails,
                metrics |-> computeResponseMetrics(view.emails)]
    /\ UNCHANGED <<db, hooks, coreDb, mailbox, last, replayed, handlers, processEnv>>

\* GET /api/thread/:threadId of server.js: metrics of the thread's messages
ServerMetrics ==
    /\ view.op = "thread"
    /\ view' = [op |-> "server_metrics", emails |-> view.emails,
                metrics |-> server_computeResponseMetrics(view.emails)]
    /\ UNCHANGED <<db, hooks, coreDb, mailbox, last, replayed, handlers, processEnv>>

InitMetrics ==
    /\ db = EmptyDb
    /\ hooks = {}
    /\ coreDb = EmptyCoreDb
    /\ mailbox = <<>>
    /\ last = NoRequest
    /\ replayed = FALSE
    /\ handlers = [s \in 1..MaxHandlers |-> IdleHandler]
    /\ \E emails \in ThreadEmails : view = [op |-> "thread", emails |-> emails]
    /\ processEnv = DefaultEnv

NextMetrics == Metrics \/ ServerMetrics

SpecMetrics == InitMetrics /\ [][NextMetrics]_vars

(***************************************************************************)
(* The summary of one thread: Emails as the core engine stores them, each   *)
(* with its own snippet (or none, or blanks) and the addresses of its       *)
(* position in the thread.                                                  *)
(***************************************************************************)
envelopeAt(i) ==
    CASE i = 1 -> [from |-> "a@x.com", to |-> <<"b@x.com">>, cc |-> <<>>]
      [] i = 2 -> [from |-> "b@x.com", to |-> <<"a@x.com">>, cc |-> <<>>]
      [] i = 3 -> [from |-> "s@futuregate.info", to |-> <<"a@x.com", "c@x.com">>, cc |-> <<>>]
      [] i = 4 -> [from |-> "d@x.com", to |-> <<"e@x.com">>, cc |-> <<>>]
      [] i = 5 -> [from |-> "f@x.com", to |-> <<"g@x.com">>, cc |-> <<"h@x.com">>]
      [] i = 6 -> [from |-> "i@x.com", to |-> <<"j@x.com">>, cc |-> <<>>]
      [] OTHER -> [from |-> "a@x.com", to |-> <<"s@futuregate.info">>, cc |-> <<>>]

snippetAt(i) ==
    CASE i = 1 -> "s1" [] i = 2 -> "s2" [] i = 3 -> "s3" [] i = 4 -> "s4"
      [] i = 5 -> "s5" [] i = 6 -> "s6" [] i = 7 -> "s7" [] OTHER -> "s8"

summarizedEmail(i, snippet, sentAt) ==
    [id |-> i, from |-> envelopeAt(i).from, to |-> envelopeAt(i).to,
     cc |-> envelopeAt(i).cc, direction |-> classifyDirection(envelopeAt(i).from),
     sentAt |-> sentAt, snippet |-> snippet]

\* the thread whose Email i has the snippet and the timestamp of choice[i]
summaryThread(choice) ==
    [i \in DOMAIN choice |->
        summarizedEmail(i, IF choice[i][1] = "text" THEN snippetAt(i) ELSE choice[i][1],
                        choice[i][2])]

SummaryChoices == {"", " ", "text"} \X {"T1", "T2"}

\* the core engine's local summary of the thread
Summarize ==
    /\ view.op = "thread"
    /\ view' = [op |-> "summary", emails |-> view.emails,
                summary |-> basicSummaryFromEmails(view.emails)]
    /\ UNCHANGED <<db, hooks, coreDb, mailbox, last, replayed, handlers, processEnv>>

InitSummary ==
    /\ db = EmptyDb
    /\ hooks = {}
    /\ coreDb = EmptyCoreDb
    /\ mailbox = <<>>
    /\ last = NoRequest
    /\ replayed = FALSE
    /\ handlers = [s \in 1..MaxHandlers |-> IdleHandler]
    /\ \E n \in 0..MaxSummaryThread : \E choice \in [1..n -> SummaryChoices] :
          view = [op |-> "thread", emails |-> summaryThread(choice)]
    /\ processEnv = DefaultEnv

NextSummary == Summarize

SpecSummary == InitSummary /\ [][NextSummary]_vars

(***************************************************************************)
(* Thread keys and subjects of two messages taken independently.           *)
(***************************************************************************)
KeySubjects ==
    {<<>>, <<"Hello">>, <<"Re:", "Hello">>, <<"_", "FW:", "_", "Hello", "_">>,
     <<"Re:", "RE:", "Fwd:", "Quarterly", "Report">>, <<"Bye">>}

KeyEnvelopes ==
    {[from |-> "a@x.com", to |-> <<"b@x.com">>, cc |-> <<>>],
     [from |-> "b@x.com", to |-> <<"A@X.com">>, cc |-> <<>>],
     [from |-> "a@x.com", to |-> <<>>, cc |-> <<"b@x.com", " a@x.com ">>],
     [from |-> "", to |-> <<"b@x.com", "a@x.com">>, cc |-> <<>>],
     [from |-> "a@x.com", to |-> <<"c@x.com">>, cc |-> <<>>],
     [from |-> "a@x.com", to |-> <<"b@x.com", "c@x.com">>, cc |-> <<>>],
     [from |-> "a@x.com", to |-> <<"c@x.com">>, cc |-> <<"b@x.com">>]}

KeyMessages ==
    {message("m1", c, s, env, "T1") :
        c \in ConversationIds, s \in KeySubjects, env \in KeyEnvelopes}

\* server.js: the threadKey of each message
ServerKeys ==
    /\ view.op = "messages"
    /\ view' = [op |-> "server_keys", a |-> view.a, b |-> view.b,
                keyA |-> server_threadKey(view.a), keyB |-> server_threadKey(view.b)]
    /\ UNCHANGED <<db, hooks, coreDb, mailbox, last, replayed, handlers, processEnv>>

\* core engine: the key upsertEmailsAndThreads gives each message
CoreKeys ==
    /\ view.op = "messages"
    /\ view' = [op |-> "keys", a |-> view.a, b |-> view.b,
                keyA |-> keyOfMessage(view.a), keyB |-> keyOfMessage(view.b)]
    /\ UNCHANGED <<db, hooks, coreDb, mailbox, last, replayed, handlers, processEnv>>

\* server.js: normalizeSubject(item.subject || "")
ServerNormalize ==
    /\ view.op = "messages"
    /\ view' = [op |-> "server_subject", a |-> view.a, b |-> view.b,
                subjectNorm |-> server_normalizeSubject(view.a.subject)]
    /\ UNCHANGED <<db, hooks, coreDb, mailbox, last, replayed, handlers, processEnv>>

\* util: normalizeSubject(subject)
Normalize ==
    /\ view.op = "messages"
    /\ view' = [op |-> "subject", a |-> view.a, b |-> view.b,
                subjectNorm |-> normalizeSubject(view.a.subject)]
    /\ UNCHANGED <<db, hooks, coreDb, mailbox, last, replayed, handlers, processEnv>>

InitKeys ==
    /\ db = EmptyDb
    /\ hooks = {}
    /\ coreDb = EmptyCoreDb
    /\ mailbox = <<>>
    /\ last = NoRequest
    /\ replayed = FALSE
    /\ handlers = [s \in 1..MaxHandlers |-> IdleHandler]
    /\ \E a, b \in KeyMessages : view = [op |-> "messages", a |-> a, b |-> b]
    /\ processEnv = DefaultEnv

NextKeys == ServerKeys \/ CoreKeys \/ ServerNormalize \/ Normalize

SpecKeys == InitKeys /\ [][NextKeys]_vars

\* the mailboxes of the runs with deliveries in flight together: the second
\* message is a staff message of conversation c1 with an identifier, new or
\* that of the first
MailboxesWithDb ==
    {<<a, message(id, "c1", <<"Bye">>, StaffEnvelope, "T1")>> :
        a \in FirstMessages, id \in {"m1", "m2"}}

InitWithDb ==
    /\ db = EmptyDb
    /\ hooks = {}
    /\ coreDb = EmptyCoreDb
    /\ mailbox \in MailboxesWithDb
    /\ last = NoRequest
    /\ replayed = FALSE
    /\ handlers = [s \in 1..MaxHandlers |-> IdleHandler]
    /\ view = NoView
    /\ processEnv = DefaultEnv

SpecWithDb == InitWithDb /\ [][NextWithDb]_vars

\* the server started with INCOMING_WEBHOOK_SECRET set
InitSecured ==
    /\ db = EmptyDb
    /\ hooks = {}
    /\ coreDb = EmptyCoreDb
    /\ mailbox \in MailboxesWithDb
    /\ last = NoRequest
    /\ replayed = FALSE
    /\ handlers = [s \in 1..MaxHandlers |-> IdleHandler]
    /\ view = NoView
    /\ processEnv = SecuredEnv

SpecSecured == InitSecured /\ [][Next]_vars

\* the mailboxes whose second message has a subject made of reply/forward
\* markers only
MailboxesMarkers ==
    {<<a, message("m2", c, s, StaffEnvelope, "T1")>> :
        a \in FirstMessages, c \in ConversationIds,
        s \in {<<"Re:">>, <<"FW:", "_", "Re:">>}}

InitMarkers ==
    /\ db = EmptyDb
    /\ hooks = {}
    /\ coreDb = EmptyCoreDb
    /\ mailbox \in MailboxesMarkers
    /\ last = NoRequest
    /\ replayed = FALSE
    /\ handlers = [s \in 1..MaxHandlers |-> IdleHandler]
    /\ view = NoView
    /\ processEnv = DefaultEnv

\* the core engine on those mailboxes
SpecCoreMarkers == InitMarkers /\ [][NextCore]_vars

(***************************************************************************)
(* Properties.                                                             *)
(***************************************************************************)
Min(S) == CHOOSE x \in S : \A y \in S : x <= y
Max(S) == CHOOSE x \in S : \A y \in S : x >= y

Indices(s) == 1..Len(s)

\* the Email records server.js shows as a thread's messages (GET /api/thread)
server_emailsOf(store, t) ==
    {e \in Range(store.emails) : e.messageId \in Range(t.messageIds)}

emailsOf(store, t) == {e \in Range(store.emails) : e.threadId = t.id}

ValidTimes(es) == {parseDateSafe(e.sentAt) : e \in es} \ {InvalidDate}

\* the step is the handling of a results request (server) / an ingest call (core)
ResultsStep == last'.op = "results" /\ last'.res.ok
IngestStep == last'.op = "ingest"

\* C1: the store never holds two Email records with the same non-empty
\* message identifier.
C1_UniqueMessageId ==
    \A i, j \in Indices(db.emails) :
        (i # j /\ db.emails[i].messageId # "")
            => db.emails[i].messageId # db.emails[j].messageId

\* a batch delivered for one query held a message already stored for another
\* query, and nothing was created for it
C1_Witness ==
    /\ last.op = "results" /\ last.res.ok
    /\ last.res.emailIdsCreated = <<>>
    /\ \E k \in Indices(last.emails), i \in Indices(db.emails) :
          /\ last.emails[k].messageId # ""
          /\ db.emails[i].messageId = last.emails[k].messageId
          /\ db.emails[i].queryId # last.queryId

\* the same of the core engine (SpecCore)
C1_Core_UniqueMessageId ==
    \A i, j \in Indices(coreDb.emails) :
        (i # j /\ coreDb.emails[i].messageId # NULL)
            => coreDb.emails[i].messageId # coreDb.emails[j].messageId

\* C2: every thread's window is that of its Emails: firstAt <= lastAt, firstAt
\* is the earliest and lastAt the latest sentAt of the thread's Emails
\* (read on the Emails with a parseable sentAt).
C2_ThreadWindow ==
    \A i \in Indices(db.threads) :
        LET t == db.threads[i]
            times == ValidTimes(server_emailsOf(db, t))
        IN times # {} =>
              /\ parseDateSafe(t.firstAt) <= parseDateSafe(t.lastAt)
              /\ parseDateSafe(t.firstAt) = Min(times)
              /\ parseDateSafe(t.lastAt) = Max(times)

\* the same of the core engine (SpecCore)
C2_Core_ThreadWindow ==
    \A i \in Indices(coreDb.threads) :
        LET t == coreDb.threads[i]
            times == ValidTimes(emailsOf(coreDb, t))
        IN /\ times # {}
           /\ InvalidDate \notin {parseDateSafe(e.sentAt) : e \in emailsOf(coreDb, t)}
           /\ parseDateSafe(t.firstAt) <= parseDateSafe(t.lastAt)
           /\ parseDateSafe(t.firstAt) = Min(times)
           /\ parseDateSafe(t.lastAt) = Max(times)

\* the call repeats the call before it with the same non-empty batch, and every
\* message carries an identifier
ReplayStep ==
    /\ last.op = "ingest" /\ IngestStep
    /\ last'.queryId = last.queryId /\ last'.emails = last.emails
    /\ last.emails # <<>>
    /\ \A k \in Indices(last.emails) : last.emails[k].messageId # ""

NothingNew ==
    /\ last'.res.emailIdsCreated = <<>>
    /\ Len(coreDb'.emails) = Len(coreDb.emails)
    /\ Len(coreDb'.threads) = Len(coreDb.threads)

\* C3: ingesting the same batch again for the same query, every message
\* carrying an identifier, creates no Email and no Thread, and
\* touchedThreadIds is non-empty on both passes.
C3_Idempotent ==
    [][ReplayStep =>
          /\ NothingNew
          /\ last.res.threadIdsTouched # <<>>
          /\ last'.res.threadIdsTouched # <<>>]_vars

\* C3 as amended: ... and touchedThreadIds is non-empty on both passes when the
\* batch holds a message with a parseable timestamp.
C3_IdempotentAmended ==
    [][ReplayStep =>
          /\ NothingNew
          /\ (\E k \in Indices(last.emails) :
                 parseIsoDate(last.emails[k].sentAt) # InvalidDate)
               => /\ last.res.threadIdsTouched # <<>>
                  /\ last'.res.threadIdsTouched # <<>>]_vars

\* a batch of two messages with identifiers and parseable timestamps was
\* ingested a second time: nothing was created, its thread was touched
C3_Witness ==
    /\ replayed /\ last.op = "ingest"
    /\ Len(last.emails) = 2
    /\ \A k \in Indices(last.emails) :
          /\ last.emails[k].messageId # ""
          /\ parseIsoDate(last.emails[k].sentAt) # InvalidDate
    /\ last.res.emailIdsCreated = <<>>
    /\ last.res.threadIdsTouched # <<>>
    /\ Len(coreDb.emails) = 2

\* every message of the batch carries the identifier of a stored Email
AllDuplicates(store, emails) ==
    /\ emails # <<>>
    /\ \A k \in Indices(emails) :
          /\ emails[k].messageId # ""
          /\ \E i \in Indices(store.emails) : store.emails[i].messageId = emails[k].messageId

\* C4: a message whose identifier matches a stored Email creates no Email and
\* changes no Thread, and the stored Email's thread is reported as touched.
C4_DuplicateChangesNothing ==
    [][(ResultsStep /\ AllDuplicates(db, last'.emails)) =>
          /\ db'.emails = db.emails
          /\ db'.threads = db.threads
          /\ \A k \in Indices(last'.emails), i \in Indices(db.threads) :
                last'.emails[k].messageId \in Range(db.threads[i].messageIds)
                    => db.threads[i].id \in Range(last'.res.threadIdsTouched)]_vars

\* the same of the core engine (SpecCore)
C4_Core_DuplicateChangesNothing ==
    [][(IngestStep /\ AllDuplicates(coreDb, last'.emails)
          /\ \A k \in Indices(last'.emails) :
                parseIsoDate(last'.emails[k].sentAt) # InvalidDate) =>
          /\ coreDb' = coreDb
          /\ \A k \in Indices(last'.emails), i \in Indices(coreDb.emails) :
                coreDb.emails[i].messageId = last'.emails[k].messageId
                    => coreDb.emails[i].threadId \in Range(last'.res.threadIdsTouched)]_vars

\* a batch of one new message with an identifier, whose key is held by a thread
\* of another query and by no thread of this query
ForeignKeyOnly(store, queryId, emails) ==
    /\ Len(emails) = 1
    /\ emails[1].messageId # ""
    /\ ~server_existing(store, emails[1].messageId)
    /\ parseDateSafe(emails[1].sentAt) # InvalidDate
    /\ \E i \in Indices(store.threads) :
          /\ store.threads[i].key = server_threadKey(emails[1])
          /\ store.threads[i].queryId # queryId
    /\ \A i \in Indices(store.threads) :
          store.threads[i].key = server_threadKey(emails[1])
              => store.threads[i].queryId # queryId

\* C5: thread lookup is scoped to the query: a thread of another query that
\* holds the message's key is neither reused nor modified, and a new Thread
\* owned by the query of the batch is created.
C5_LookupScopedToQuery ==
    [][(ResultsStep /\ ForeignKeyOnly(db, last'.queryId, last'.emails)) =>
          /\ Len(db'.threads) = Len(db.threads) + 1
          /\ SubSeq(db'.threads, 1, Len(db.threads)) = db.threads
          /\ db'.threads[Len(db'.threads)].queryId = last'.queryId
          /\ db'.threads[Len(db'.threads)].key = server_threadKey(last'.emails[1])]_vars

\* the same of the core engine (SpecCore)
C5_Core_LookupScopedToQuery ==
    [][(/\ IngestStep
        /\ Len(last'.emails) = 1
        /\ alreadyIndex(coreDb, last'.emails[1].messageId) = 0
        /\ parseIsoDate(last'.emails[1].sentAt) # InvalidDate
        /\ \E i \in Indices(coreDb.threads) :
              /\ coreDb.threads[i].key = keyOfMessage(last'.emails[1])
              /\ coreDb.threads[i].queryId # last'.queryId
        /\ \A i \in Indices(coreDb.threads) :
              coreDb.threads[i].key = keyOfMessage(last'.emails[1])
                  => coreDb.threads[i].queryId # last'.queryId) =>
          /\ Len(coreDb'.threads) = Len(coreDb.threads) + 1
          /\ SubSeq(coreDb'.threads, 1, Len(coreDb.threads)) = coreDb.threads
          /\ coreDb'.threads[Len(coreDb'.threads)].queryId = last'.queryId]_vars

\* C6: a thread's participant set only grows.
C6_ParticipantsGrow ==
    [][\A i \in Indices(db.threads) :
          /\ i <= Len(db'.threads)
          /\ db'.threads[i].id = db.threads[i].id
          /\ Range(db.threads[i].participants) \subseteq Range(db'.threads[i].participants)]_vars

\* a thread that two messages of different senders hit holds the addresses of
\* both
C6_Witness ==
    /\ last.op = "results" /\ last.res.ok
    /\ \E i \in Indices(db.threads) :
          /\ Len(db.threads[i].messageIds) = 2
          /\ {"a@x.com", "b@x.com", "s@futuregate.info"}
                \subseteq Range(db.threads[i].participants)

\* the same of the core engine (SpecCore)
C6_Core_ParticipantsGrow ==
    [][\A i \in Indices(coreDb.threads) :
          /\ i <= Len(coreDb'.threads)
          /\ coreDb'.threads[i].id = coreDb.threads[i].id
          /\ Range(coreDb.threads[i].participants)
                \subseteq Range(coreDb'.threads[i].participants)]_vars

RealSubject(subject) == subject # <<>> /\ subject # <<"(no subject)">>

\* C7: once a thread has a non-empty, non-placeholder subject no later message
\* changes it; only an empty or placeholder subject is replaced.
C7_SubjectStable ==
    [][\A i \in Indices(coreDb.threads) :
          RealSubject(coreDb.threads[i].subject)
              => /\ i <= Len(coreDb'.threads)
                 /\ coreDb'.threads[i].subject = coreDb.threads[i].subject]_vars

\* a thread with a real subject holds an Email whose normalized subject is a
\* different real subject
C7_Witness ==
    /\ last.op = "ingest"
    /\ \E i \in Indices(coreDb.threads) :
          /\ RealSubject(coreDb.threads[i].subject)
          /\ \E e \in emailsOf(coreDb, coreDb.threads[i]) :
                /\ RealSubject(normalizeSubject(e.subject))
                /\ normalizeSubject(e.subject) # coreDb.threads[i].subject
                /\ e.id = last.res.emailIdsCreated[Len(last.res.emailIdsCreated)]

\* C8: a message whose timestamp cannot be parsed is skipped: no Email is
\* stored, no Thread created or modified, nothing reported as created.
C8_InvalidTimestampSkipped ==
    [][(/\ ResultsStep
        /\ last'.emails # <<>>
        /\ \A k \in Indices(last'.emails) :
              parseDateSafe(last'.emails[k].sentAt) = InvalidDate) =>
          /\ db'.emails = db.emails
          /\ db'.threads = db.threads
          /\ last'.res.emailIdsCreated = <<>>]_vars

\* the same of the core engine (SpecCore), with the rest of the batch processed
C8_Core_InvalidTimestampSkipped ==
    [][IngestStep =>
          LET valid == SelectSeq(last'.emails,
                                 LAMBDA e : parseIsoDate(e.sentAt) # InvalidDate)
              r == upsertEmailsAndThreads(coreDb, last'.queryId, valid)
          IN /\ coreDb'.emails = r.emails
             /\ coreDb'.threads = r.threads
             /\ last'.res.emailIdsCreated = r.emailIdsCreated
             /\ \A i \in Indices(coreDb'.emails) :
                   parseIsoDate(coreDb'.emails[i].sentAt) # InvalidDate]_vars

\* C9: a message without identifier and with a valid timestamp is never
\* deduplicated: each ingestion of it creates a new Email.
C9_EmptyIdAlwaysCreated ==
    [][(/\ ResultsStep
        /\ \A k \in Indices(last'.emails) :
              /\ last'.emails[k].messageId = ""
              /\ parseDateSafe(last'.emails[k].sentAt) # InvalidDate) =>
          /\ Len(db'.emails) = Len(db.emails) + Len(last'.emails)
          /\ Len(last'.res.emailIdsCreated) = Len(last'.emails)]_vars

\* the same of the core engine (SpecCore)
C9_Core_EmptyIdAlwaysCreated ==
    [][(/\ IngestStep
        /\ \A k \in Indices(last'.emails) :
              /\ last'.emails[k].messageId = ""
              /\ parseIsoDate(last'.emails[k].sentAt) # InvalidDate) =>
          /\ Len(coreDb'.emails) = Len(coreDb.emails) + Len(last'.emails)
          /\ Len(last'.res.emailIdsCreated) = Len(last'.emails)]_vars

\* C10: a batch whose queryId matches no Query is refused with
\* {ok: false, error: "Unknown queryId"} and the store is unchanged.
C10_UnknownQueryRefused ==
    [][(last'.op = "results" /\ findQuery(db, last'.queryId) = 0) =>
          /\ db' = db
          /\ last'.res.ok = FALSE
          /\ last'.res.error = "Unknown queryId"
          /\ last'.res.emailIdsCreated = <<>>]_vars

\* a batch with a message was refused by a store that holds a query and an Email
C10_Witness ==
    /\ last.op = "results"
    /\ last.res.error = "Unknown queryId"
    /\ last.emails # <<>>
    /\ findQuery(db, last.queryId) = 0
    /\ db.queries # <<>>
    /\ db.emails # <<>>

\* C11: a Query is created pending, its status changes only from pending (to
\* complete or to the failure status), and a query that has become complete or
\* failed keeps its status under every interleaving of the hook's answer and
\* the result deliveries.
C11_StatusLifecycle ==
    [][/\ \A i \in Indices(db.queries) :
             /\ i <= Len(db'.queries)
             /\ db'.queries[i].status # db.queries[i].status
                   => /\ db.queries[i].status = "pending"
                      /\ db'.queries[i].status \in {"complete", "failed", "error"}
       /\ \A i \in Indices(db'.queries) :
             i > Len(db.queries) => db'.queries[i].status = "pending"]_vars

\* the step is the writeDb of handler s
WriteStep(s) == handlers[s].pc = "write" /\ handlers'[s].pc = "done"

\* C12: result deliveries handled together never interleave their store
\* mutations: each read / ingest / write sequence is atomic, so every write
\* leaves the store that the ingestion makes of the store as it was just
\* before the write (the deliveries take effect one after the other, in the
\* order of their writes) and no ingestion's writes are lost.
C12_AtomicWithDb ==
    [][\A s \in 1..MaxHandlers :
          WriteStep(s) =>
             LET out == resultsMutator(db, handlers[s].queryId, handlers[s].emails)
             IN /\ db' = out.store
                /\ last'.res = out.res
                /\ \A i \in Indices(db.emails) : db'.emails[i] = db.emails[i]]_vars

\* two deliveries that were in flight together have both been handled, each
\* created an Email and the store holds both
C12_Witness ==
    /\ \A s \in 1..MaxHandlers : handlers[s].pc = "done" /\ handlers[s].overlapped
    /\ \A s \in 1..MaxHandlers : handlers[s].res.emailIdsCreated # <<>>
    /\ Len(db.emails) = MaxHandlers

\* the thread's Emails by id, their times, and the order "ascending sent time,
\* equal times in the order given"
EmailOf(emails, id) == emails[CHOOSE i \in DOMAIN emails : emails[i].id = id]
TimeOf(emails, id) == parseIsoDate(EmailOf(emails, id).sentAt)
IdsOf(emails, direction) ==
    {emails[i].id : i \in {k \in DOMAIN emails : emails[k].direction = direction}}
After(emails, a, b) ==
    \/ TimeOf(emails, b) > TimeOf(emails, a)
    \/ TimeOf(emails, b) = TimeOf(emails, a) /\ b > a

\* perClient holds exactly one entry for each client message, matched to the
\* first staff message after it, or to none
PerClientRight(emails, perClient) ==
    /\ Len(perClient) = Cardinality(IdsOf(emails, "client"))
    /\ {perClient[k].clientMessageId : k \in DOMAIN perClient} = IdsOf(emails, "client")
    /\ \A k \in DOMAIN perClient :
          LET c == perClient[k].clientMessageId
              later == {s \in IdsOf(emails, "staff") : After(emails, c, s)}
          IN IF later = {}
             THEN perClient[k].staffReplyId = None /\ perClient[k].responseSeconds = None
             ELSE /\ perClient[k].responseSeconds # None
                  /\ \E r \in later :
                        /\ perClient[k].staffReplyId = Some(r)
                        /\ \A s \in later : s = r \/ After(emails, r, s)

\* C13: metrics returns exactly one perClient entry for each client message of
\* the thread; staffReplyId is the first staff message after the client
\* message in ascending sent-time order, staffReplyId and responseSeconds are
\* null when no staff message follows, and one staff message may be the reply
\* of several client messages.
C13_PerClientReplies ==
    view.op \in {"metrics", "server_metrics"} =>
        /\ "perClient" \in DOMAIN view.metrics
        /\ PerClientRight(view.emails, view.metrics.perClient)

\* the same of the core engine alone
C13_Core_PerClientReplies ==
    view.op = "metrics" => PerClientRight(view.emails, view.metrics.perClient)

\* the core engine matched one staff message to two client messages
C13_Core_Witness ==
    /\ view.op = "metrics"
    /\ \E k, l \in DOMAIN view.metrics.perClient :
          /\ k # l
          /\ view.metrics.perClient[k].staffReplyId # None
          /\ view.metrics.perClient[k].staffReplyId = view.metrics.perClient[l].staffReplyId

Responded(perClient) == SelectSeq(perClient, isNumber)

Abs(x) == IF x < 0 THEN -x ELSE x

\* C14: averageSeconds is the mean of the non-null responseSeconds rounded to
\* the nearest whole second, and is null exactly when no client message
\* received a reply.
C14_AverageSeconds ==
    view.op = "metrics" =>
        LET responded == Responded(view.metrics.perClient)
            n == Len(responded)
            sum == sumSeconds(responded)
            avg == view.metrics.averageSeconds
        IN /\ (avg = None) <=> (n = 0)
           /\ n > 0 => /\ avg[1] \in Int
                       /\ 2 * Abs(n * avg[1] - sum) <= n

\* three client messages were answered and the mean of their response times
\* is not a whole number of seconds
C14_Witness ==
    /\ view.op = "metrics"
    /\ Len(Responded(view.metrics.perClient)) = 3
    /\ sumSeconds(Responded(view.metrics.perClient)) % 3 = 2
    /\ view.metrics.averageSeconds # None

\* C15: every responseSeconds is null or a non-negative whole number, the
\* whole seconds elapsed from the client message to the reply matched to it;
\* a reply timestamped earlier than its client message yields 0.
C15_NonNegativeSeconds ==
    view.op = "metrics" =>
        \A k \in DOMAIN view.metrics.perClient :
            LET e == view.metrics.perClient[k]
                elapsed == TimeOf(view.emails, e.staffReplyId[1])
                             - TimeOf(view.emails, e.clientMessageId)
            IN \/ e.responseSeconds = None
               \/ /\ e.responseSeconds[1] \in Nat
                  /\ elapsed < 0 => e.responseSeconds[1] = 0
                  /\ elapsed >= 0 => /\ 1000 * e.responseSeconds[1] <= elapsed
                                     /\ elapsed < 1000 * (e.responseSeconds[1] + 1)

\* a client message was answered less than a second later (0 seconds), and a
\* client message is followed in the store by a staff message that carries an
\* earlier timestamp and is not matched to it
C15_Witness ==
    /\ view.op = "metrics"
    /\ \E k \in DOMAIN view.metrics.perClient :
          LET e == view.metrics.perClient[k]
          IN /\ e.responseSeconds = Some(0)
             /\ TimeOf(view.emails, e.staffReplyId[1])
                   > TimeOf(view.emails, e.clientMessageId)
    /\ \E k \in DOMAIN view.metrics.perClient :
          LET e == view.metrics.perClient[k]
          IN \E s \in IdsOf(view.emails, "staff") :
                /\ s > e.clientMessageId
                /\ TimeOf(view.emails, s) < TimeOf(view.emails, e.clientMessageId)
                /\ e.staffReplyId # Some(s)

\* C16: keyFor uses the conversation-namespaced key whenever the message
\* carries a non-empty conversation identifier and the fallback-namespaced key
\* otherwise; no conversation key equals a fallback key, so messages with and
\* without a conversation id never share a key.
C16_KeyNamespaces ==
    view.op \in {"server_keys", "keys"} =>
        /\ (view.keyA.ns = "conv") <=> (view.a.conversationId # "")
        /\ (view.keyB.ns = "conv") <=> (view.b.conversationId # "")
        /\ view.keyA.ns = "conv" => view.keyA.conv = view.a.conversationId
        /\ view.keyB.ns = "conv" => view.keyB.conv = view.b.conversationId
        /\ view.keyA.ns \in {"conv", "subj", "fallback"}
        /\ view.keyB.ns \in {"conv", "subj", "fallback"}
        /\ (view.a.conversationId # "") # (view.b.conversationId # "")
              => view.keyA # view.keyB

\* server.js keyed two messages with the same subject and addresses, one with
\* a conversation id and one without, under different keys
C16_Witness ==
    /\ view.op = "server_keys"
    /\ view.a.conversationId # "" /\ view.b.conversationId = ""
    /\ view.a.subject = view.b.subject /\ view.a.from = view.b.from
    /\ view.a.to = view.b.to /\ view.a.cc = view.b.cc
    /\ view.keyA.ns = "conv" /\ view.keyB.ns = "subj"
    /\ view.keyA # view.keyB

\* the set of participant addresses of a message
ParticipantSet(e) ==
    {safeEmail(x) : x \in {e.from} \cup Range(e.to) \cup Range(e.cc)} \ {""}

\* C17: the fallback key depends only on the normalized subject and the set
\* of participant addresses: two messages without a conversation id with the
\* same normalized subject and the same participant set get the same key,
\* whatever the order of recipients, the split between sender, to and cc, the
\* address casing or the reply/forward prefixes.
C17_FallbackKeyDeterminism ==
    (/\ view.op = "keys"
     /\ view.a.conversationId = "" /\ view.b.conversationId = ""
     /\ normalizeSubject(view.a.subject) = normalizeSubject(view.b.subject)
     /\ ParticipantSet(view.a) = ParticipantSet(view.b))
        => /\ view.keyA = view.keyB
           /\ view.keyA.ns = "fallback"

\* two messages that differ in prefixes, sender, recipient order and casing
\* got the same fallback key
C17_Witness ==
    /\ view.op = "keys"
    /\ view.a.conversationId = "" /\ view.b.conversationId = ""
    /\ view.a.subject # view.b.subject
    /\ view.a.from # view.b.from
    /\ view.a.to # view.b.to
    /\ \E i \in DOMAIN view.b.to : toLowerCase(view.b.to[i]) # view.b.to[i]
    /\ ParticipantSet(view.a) = ParticipantSet(view.b)
    /\ Cardinality(ParticipantSet(view.a)) = 2
    /\ view.keyA = view.keyB

\* C18: normalizeSubject strips leading reply/forward markers (re:, fw:, fwd:,
\* any case) repeatedly until none is left: its result never begins with such
\* a marker ("Re: RE: Fwd: Quarterly Report" becomes "Quarterly Report").
C18_StripsAllMarkers ==
    view.op \in {"server_subject", "subject"} =>
        /\ view.subjectNorm # <<>> => ~IsMarker(Head(view.subjectNorm))
        /\ view.a.subject = <<"Re:", "RE:", "Fwd:", "Quarterly", "Report">>
              => MapSeq(view.subjectNorm, toLowerCase) = <<"quarterly", "report">>

\* the same of the core engine's normalizeSubject alone, with the example
\* kept in its casing
C18_Core_StripsAllMarkers ==
    view.op = "subject" =>
        /\ view.subjectNorm # <<>> => ~IsMarker(Head(view.subjectNorm))
        /\ ~(\E i \in DOMAIN view.subjectNorm : IsSpace(view.subjectNorm[i]))
        /\ view.a.subject = <<"Re:", "RE:", "Fwd:", "Quarterly", "Report">>
              => view.subjectNorm = <<"Quarterly", "Report">>

\* the non-empty snippets of the thread in send-time order
SnippetsInOrder(emails) == SelectSeq(MapSeq(sortBySentAt(emails), snippetOf), truthy)

\* C19: the local summary lists at most 8 distinct participants and the last
\* 5 non-empty snippets of the thread in send-time order (fewer when the
\* thread has fewer), and actionItems is always empty.
C19_SummaryContents ==
    view.op = "summary" =>
        LET s == view.summary
            all == SnippetsInOrder(view.emails)
        IN /\ Len(s.participants) <= 8
           /\ Cardinality(Range(s.participants)) = Len(s.participants)
           /\ Range(s.participants)
                 \subseteq UNION {Range(addressesOf(view.emails[i])) : i \in DOMAIN view.emails}
           /\ s.keyPoints = SubSeq(all, IF Len(all) < 5 THEN 1 ELSE Len(all) - 4, Len(all))
           /\ s.actionItems = <<>>

\* what the core engine lists: the first 5 of the last 8 non-empty snippets
C19_Core_FirstFiveOfLastEight ==
    view.op = "summary" =>
        LET s == view.summary
            all == SnippetsInOrder(view.emails)
            kept == SubSeq(all, IF Len(all) < 8 THEN 1 ELSE Len(all) - 7, Len(all))
        IN /\ Len(s.participants) <= 8
           /\ Cardinality(Range(s.participants)) = Len(s.participants)
           /\ s.keyPoints = SubSeq(kept, 1, IF Len(kept) < 5 THEN Len(kept) ELSE 5)
           /\ s.actionItems = <<>>

\* C20: when a webhook secret is configured, a results request whose
\* X-Webhook-Secret header differs from it is rejected with 401 and leaves
\* queries, threads and emails unchanged.
C20_BadSecretRejected ==
    [][(/\ last'.op = "results"
        /\ processEnv.INCOMING_WEBHOOK_SECRET # ""
        /\ last'.secret # processEnv.INCOMING_WEBHOOK_SECRET) =>
          /\ last'.res.status = 401
          /\ last'.res.ok = FALSE
          /\ last'.res.emailIdsCreated = <<>>
          /\ db' = db]_vars

\* a request with a wrong secret was rejected by a server that holds a pending
\* query, a complete query and an Email
C20_Witness ==
    /\ last.op = "results"
    /\ last.secret = "wrong"
    /\ last.res.status = 401
    /\ \E i \in Indices(db.queries) : db.queries[i].status = "pending"
    /\ \E i \in Indices(db.queries) : db.queries[i].status = "complete"
    /\ db.emails # <<>>

\* the spellings of the placeholder subject
Placeholders == {<<"(No subject)">>, <<"(no subject)">>, <<"no subject">>}

\* the subject is the normalized subject of the message, or the placeholder
\* when that is empty
SubjectOf(subject, norm) ==
    IF norm = <<>> THEN subject \in Placeholders ELSE subject = norm

\* C21: a message that resolves to no thread of the batch's query creates a
\* Thread of that query with firstAt = lastAt = the message's sentAt, the
\* message's participant set as participants, and the message's normalized
\* subject as subject, the placeholder when the normalized subject is empty.
C21_NewThread ==
    [][(/\ ResultsStep
        /\ Len(last'.emails) = 1
        /\ last'.emails[1].messageId # ""
        /\ \A i \in Indices(db.threads) :
              ~(/\ db.threads[i].key = server_threadKey(last'.emails[1])
                /\ db.threads[i].queryId = last'.queryId)) =>
          /\ Len(db'.threads) = Len(db.threads) + 1
          /\ LET t == db'.threads[Len(db'.threads)]
                 item == last'.emails[1]
             IN /\ t.queryId = last'.queryId
                /\ t.firstAt = item.sentAt
                /\ t.lastAt = item.sentAt
                /\ Range(t.participants) = ParticipantSet(item)
                /\ \/ SubjectOf(t.subject, server_normalizeSubject(item.subject))
                   \/ SubjectOf(t.subject, normalizeSubject(item.subject))]_vars

\* the same of the core engine (SpecCore; SpecCoreMarkers for the subjects made
\* of markers only)
C21_Core_NewThread ==
    [][(/\ IngestStep
        /\ Len(last'.emails) = 1
        /\ parseIsoDate(last'.emails[1].sentAt) # InvalidDate
        /\ alreadyIndex(coreDb, trimStr(last'.emails[1].messageId)) = 0
        /\ \A i \in Indices(coreDb.threads) :
              ~(/\ coreDb.threads[i].key = keyOfMessage(last'.emails[1])
                /\ coreDb.threads[i].queryId = last'.queryId)) =>
          /\ Len(coreDb'.threads) = Len(coreDb.threads) + 1
          /\ LET t == coreDb'.threads[Len(coreDb'.threads)]
                 e == last'.emails[1]
             IN /\ t.queryId = last'.queryId
                /\ parseIsoDate(t.firstAt) = parseIsoDate(e.sentAt)
                /\ parseIsoDate(t.lastAt) = parseIsoDate(e.sentAt)
                /\ Range(t.participants) = ParticipantSet(e)
                /\ t.participants = sortAddrs(t.participants)
                /\ SubjectOf(t.subject, normalizeSubject(e.subject))]_vars

\* the same without the subject
C21_Core_NewThreadWindow ==
    [][(/\ IngestStep
        /\ Len(last'.emails) = 1
        /\ parseIsoDate(last'.emails[1].sentAt) # InvalidDate
        /\ alreadyIndex(coreDb, trimStr(last'.emails[1].messageId)) = 0
        /\ \A i \in Indices(coreDb.threads) :
              ~(/\ coreDb.threads[i].key = keyOfMessage(last'.emails[1])
                /\ coreDb.threads[i].queryId = last'.queryId)) =>
          /\ Len(coreDb'.threads) = Len(coreDb.threads) + 1
          /\ LET t == coreDb'.threads[Len(coreDb'.threads)]
                 e == last'.emails[1]
             IN /\ t.queryId = last'.queryId
                /\ parseIsoDate(t.firstAt) = parseIsoDate(e.sentAt)
                /\ parseIsoDate(t.lastAt) = parseIsoDate(e.sentAt)
                /\ Range(t.participants) = ParticipantSet(e)]_vars

\* the ids of the Email records from position n + 1 on
IdsFrom(emails, n) == [k \in 1..(Len(emails) - n) |-> emails[n + k].id]

NoRepeat(s) == \A i, j \in Indices(s) : i # j => s[i] # s[j]

\* C22: createdEmailIds holds exactly the ids of the Email records the call
\* appended, one per new Email and none for a skipped or duplicate message,
\* and touchedThreadIds holds each touched thread id once, also when several
\* messages of the batch hit the same thread.
C22_ReturnedIds ==
    [][ResultsStep =>
          /\ Len(db'.emails) >= Len(db.emails)
          /\ last'.res.emailIdsCreated = IdsFrom(db'.emails, Len(db.emails))
          /\ NoRepeat(last'.res.emailIdsCreated)
          /\ \A i \in Indices(db.emails) :
                db.emails[i].id \notin Range(last'.res.emailIdsCreated)
          /\ (\A k \in Indices(last'.emails) :
                 \/ last'.emails[k].messageId = ""
                 \/ server_existing(db, last'.emails[k].messageId))
                => last'.res.emailIdsCreated = <<>>
          /\ NoRepeat(last'.res.threadIdsTouched)
          /\ \A i \in Indices(db'.threads) :
                (i > Len(db.threads) \/ db'.threads[i] # db.threads[i])
                    => db'.threads[i].id \in Range(last'.res.threadIdsTouched)
          /\ \A id \in Range(last'.res.threadIdsTouched) :
                \E i \in Indices(db'.threads), k \in Indices(last'.emails) :
                    /\ db'.threads[i].id = id
                    /\ last'.emails[k].messageId # ""
                    /\ last'.emails[k].messageId \in Range(db'.threads[i].messageIds)]_vars

\* a batch of two new messages of one conversation created two Emails and
\* touched their thread, reported once
C22_Witness ==
    /\ last.op = "results" /\ last.res.ok
    /\ Len(last.emails) = 2
    /\ last.emails[1].messageId # last.emails[2].messageId
    /\ Len(last.res.emailIdsCreated) = 2
    /\ Len(last.res.threadIdsTouched) = 1
    /\ Len(db.threads) = 1
    /\ Len(db.threads[1].messageIds) = 2

\* the same of the core engine (SpecCore)
C22_Core_ReturnedIds ==
    [][IngestStep =>
          /\ Len(coreDb'.emails) >= Len(coreDb.emails)
          /\ last'.res.emailIdsCreated = IdsFrom(coreDb'.emails, Len(coreDb.emails))
          /\ NoRepeat(last'.res.emailIdsCreated)
          /\ (\A k \in Indices(last'.emails) :
                 \/ parseIsoDate(last'.emails[k].sentAt) = InvalidDate
                 \/ alreadyIndex(coreDb, trimStr(last'.emails[k].messageId)) # 0)
                => last'.res.emailIdsCreated = <<>>
          /\ NoRepeat(last'.res.threadIdsTouched)
          /\ \A i \in Indices(coreDb'.threads) :
                (i > Len(coreDb.threads) \/ coreDb'.threads[i] # coreDb.threads[i])
                    => coreDb'.threads[i].id \in Range(last'.res.threadIdsTouched)
          /\ \A id \in Range(last'.res.threadIdsTouched) :
                \E i \in Indices(coreDb'.emails), k \in Indices(last'.emails) :
                    /\ coreDb'.emails[i].threadId = id
                    /\ \/ coreDb'.emails[i].messageId = trimStr(last'.emails[k].messageId)
                       \/ /\ i > Len(coreDb.emails)
                          /\ last'.emails[k].messageId = ""]_vars

\* C23: each accepted batch for a known query sets that query's status to
\* complete, adds the number of raw messages of the batch (skipped and
\* duplicate ones included) to receivedCount and the number of Emails created
\* to createdMessages, and leaves every other Query record unchanged.
C23_QueryCounters ==
    [][(last'.op = "results" /\ findQuery(db, last'.queryId) # 0) =>
          /\ last'.res.ok
          /\ Len(db'.queries) = Len(db.queries)
          /\ \A i \in Indices(db.queries) :
                IF db.queries[i].id = last'.queryId
                THEN /\ db'.queries[i].id = db.queries[i].id
                     /\ db'.queries[i].status = "complete"
                     /\ db'.queries[i].receivedCount
                           = db.queries[i].receivedCount + Len(last'.emails)
                     /\ db'.queries[i].createdMessages
                           = db.queries[i].createdMessages
                               + Len(db'.emails) - Len(db.emails)
                     /\ Len(db'.emails) - Len(db.emails) = Len(last'.res.emailIdsCreated)
                ELSE db'.queries[i] = db.queries[i]]_vars

\* a batch of two messages, one of them a duplicate or without identifier, was
\* accepted for the second query while the first was pending: two received,
\* one created, the first query as it was
C23_Witness ==
    /\ last.op = "results" /\ last.res.ok
    /\ last.queryId = "q2"
    /\ Len(last.emails) = 2
    /\ Len(db.queries) = 2
    /\ db.queries[1] = [id |-> "q1", status |-> "pending",
                        receivedCount |-> 0, createdMessages |-> 0]
    /\ db.queries[2] = [id |-> "q2", status |-> "complete",
                        receivedCount |-> 2, createdMessages |-> 1]
    /\ Len(db.emails) = 1

\* C24: ingestion never changes the key, id or owning query id of an existing
\* Thread and never edits or removes an existing Email record: the threads
\* and emails collections only grow.
C24_AppendOnly ==
    [][/\ Len(db'.threads) >= Len(db.threads)
       /\ \A i \in Indices(db.threads) :
             /\ db'.threads[i].id = db.threads[i].id
             /\ db'.threads[i].key = db.threads[i].key
             /\ db'.threads[i].queryId = db.threads[i].queryId
       /\ Len(db'.emails) >= Len(db.emails)
       /\ SubSeq(db'.emails, 1, Len(db.emails)) = db.emails]_vars

\* a delivery for one query brought a stored message again, with other
\* contents, into a thread of another query: the thread has the new addresses
\* and is still that of the first query, the Email is as it was stored
C24_Witness ==
    /\ last.op = "results" /\ last.res.ok
    /\ Len(last.emails) = 1
    /\ Len(db.threads) = 1
    /\ db.threads[1].queryId # last.queryId
    /\ {"b@x.com", "s@futuregate.info"} \subseteq Range(db.threads[1].participants)
    /\ Len(db.emails) = 1
    /\ db.emails[1].messageId = last.emails[1].messageId
    /\ db.emails[1].queryId # last.queryId
    /\ db.emails[1].from # last.emails[1].from

\* the same of the core engine (SpecCore)
C24_Core_AppendOnly ==
    [][/\ Len(coreDb'.threads) >= Len(coreDb.threads)
       /\ \A i \in Indices(coreDb.threads) :
             /\ coreDb'.threads[i].id = coreDb.threads[i].id
             /\ coreDb'.threads[i].key = coreDb.threads[i].key
             /\ coreDb'.threads[i].queryId = coreDb.threads[i].queryId
       /\ Len(coreDb'.emails) >= Len(coreDb.emails)
       /\ SubSeq(coreDb'.emails, 1, Len(coreDb.emails)) = coreDb.emails]_vars

\* C25: every Email's threadId is the id of exactly one Thread of the store,
\* and that Thread's queryId is the Email's queryId.
C25_EmailOwnedByThread ==
    \A i \in Indices(coreDb.emails) :
        LET owners == {j \in Indices(coreDb.threads) :
                          coreDb.threads[j].id = coreDb.emails[i].threadId}
        IN /\ Cardinality(owners) = 1
           /\ \A j \in owners : coreDb.threads[j].queryId = coreDb.emails[i].queryId

\* two queries each ingested a message of the same key: two threads with that
\* key, each Email in the thread of its own query
C25_Witness ==
    /\ last.op = "ingest"
    /\ Len(coreDb.emails) = 2
    /\ Len(coreDb.threads) = 2
    /\ coreDb.threads[1].key = coreDb.threads[2].key
    /\ coreDb.emails[1].queryId # coreDb.emails[2].queryId
    /\ coreDb.emails[1].threadId # coreDb.emails[2].threadId

\* C26: the store holds at most one Thread for each pair of thread key and
\* query id.
C26_OneThreadPerKeyAndQuery ==
    \A i, j \in Indices(db.threads) :
        (/\ db.threads[i].key = db.threads[j].key
         /\ db.threads[i].queryId = db.threads[j].queryId) => i = j

\* a second delivery for a query brought a new message with the key of the
\* thread the first delivery created: one thread, two messages
C26_Witness ==
    /\ last.op = "results" /\ last.res.ok
    /\ Len(last.emails) = 1
    /\ Len(last.res.emailIdsCreated) = 1
    /\ Len(db.emails) = 2
    /\ Len(db.threads) = 1
    /\ db.threads[1].queryId = last.queryId
    /\ db.threads[1].key = server_threadKey(last.emails[1])
    /\ Len(db.threads[1].messageIds) = 2
    /\ \A i \in Indices(db.emails) : db.emails[i].queryId = last.queryId

\* the same of the core engine (SpecCore)
C26_Core_OneThreadPerKeyAndQuery ==
    \A i, j \in Indices(coreDb.threads) :
        (/\ coreDb.threads[i].key = coreDb.threads[j].key
         /\ coreDb.threads[i].queryId = coreDb.threads[j].queryId) => i = j

\* the non-empty sender, recipient and cc addresses of a stored Email
AddressesOfEmail(e) == ({e.from} \cup Range(e.to) \cup Range(e.cc)) \ {""}

\* C27: a Thread's participants are the union of the non-empty sender,
\* recipient and cc addresses of the Emails whose threadId is that thread,
\* without duplicates and in ascending order.
C27_ParticipantsAreUnion ==
    \A i \in Indices(coreDb.threads) :
        LET t == coreDb.threads[i]
        IN /\ Range(t.participants)
                = UNION {AddressesOfEmail(e) : e \in emailsOf(coreDb, t)}
           /\ NoRepeat(t.participants)
           /\ \A a, b \in Indices(t.participants) :
                 a < b => addrRank(t.participants[a]) < addrRank(t.participants[b])

\* a thread holds two Emails of different senders, the second with a cc
\* address that sorts before its sender: four participants in order
C27_Witness ==
    /\ last.op = "ingest"
    /\ \E i \in Indices(coreDb.threads) :
          /\ Cardinality(emailsOf(coreDb, coreDb.threads[i])) = 2
          /\ coreDb.threads[i].participants
                = <<"a@x.com", "b@x.com", "c@x.com", "s@futuregate.info">>
          /\ \E e \in emailsOf(coreDb, coreDb.threads[i]) :
                AddressesOfEmail(e) = {"a@x.com", "b@x.com"}

\* C28: for Emails with valid timestamps, the staff reply matched to a client
\* message is never sent earlier than the client message: staffTime >=
\* clientTime for every matched pair, and responseSeconds is the floor of the
\* elapsed seconds, the clamp to zero changing nothing.
C28_ReplyNotEarlier ==
    (/\ view.op = "metrics"
     /\ \A i \in DOMAIN view.emails : parseIsoDate(view.emails[i].sentAt) # InvalidDate)
        => \A k \in DOMAIN view.metrics.perClient :
              LET e == view.metrics.perClient[k]
              IN e.staffReplyId # None =>
                    LET staffTime == TimeOf(view.emails, e.staffReplyId[1])
                        clientTime == TimeOf(view.emails, e.clientMessageId)
                    IN /\ staffTime >= clientTime
                       /\ e.responseSeconds = Some((staffTime - clientTime) \div 1000)

\* the thread was given out of send order: a client message is matched to a
\* later staff message that stands before it in the store, and a staff
\* message that stands after a client message was sent before it
C28_Witness ==
    /\ view.op = "metrics"
    /\ \E k \in DOMAIN view.metrics.perClient :
          LET e == view.metrics.perClient[k]
          IN /\ e.staffReplyId # None
             /\ e.staffReplyId[1] < e.clientMessageId
             /\ TimeOf(view.emails, e.staffReplyId[1])
                   > TimeOf(view.emails, e.clientMessageId)
    /\ \E c \in IdsOf(view.emails, "client"), s \in IdsOf(view.emails, "staff") :
          /\ s > c
          /\ TimeOf(view.emails, s) < TimeOf(view.emails, c)

====
